---- MODULE Spec2Model ----
(***************************************************************************)
(* Model of sample_info/modules/visualizations.py: the conversion of a     *)
(* score argument to a flat numpy array and the three plotting functions   *)
(* built on it.  A call is a small state machine: pc is the position in    *)
(* the function body, the other variables are its locals, the figure it    *)
(* draws and the files it saves.                                           *)
(*                                                                         *)
(* Scores are integers; a bin edge is a rational kept as numerator over a  *)
(* common denominator, so that binning is exact (floating-point rounding   *)
(* of numpy.linspace is not modelled).                                     *)
(***************************************************************************)
EXTENDS Integers, Sequences, FiniteSets, TLC

VARIABLES
    fn,                      \* the function that was called
    pc,                      \* position in its body
    args,                    \* the caller's arguments (never reassigned)
    exc,                     \* the exception that ended the call, or "none"
    informativeness_scores,  \* the local of that name once converted
    ret,                     \* convert_scores_to_numpy: value returned
    again,                   \* convert_scores_to_numpy applied to ret
    density,                 \* plot_histogram: local density
    groups,                  \* plot_histogram: local groups
    bins,                    \* plot_histogram: local bins (int, then edges)
    with_groups,             \* plot_histogram: local with_groups
    different_groups,        \* plot_histogram: sorted distinct labels
    todo,                    \* labels / classes / columns the running loop has left
    fig,                     \* the figure: series, y label, legend, image panels
    saved,                   \* the savefig calls made, in order
    order,                   \* np.argsort(informativeness_scores)
    indices,                 \* plot_least_or_most: the slice of order
    shown,                   \* plot_least_or_most: what the display routine got
    ys,                      \* plot_summary: class of every sample
    least_informative,       \* plot_summary: order[:10]
    most_informative         \* plot_summary: order[-10:]

vars == <<fn, pc, args, exc, informativeness_scores, ret, again, density, groups,
          bins, with_groups, different_groups, todo, fig, saved, order, indices,
          shown, ys, least_informative, most_informative>>

(***************************************************************************)
(* Bounds of the model.                                                    *)
(***************************************************************************)
MaxScore == 2       \* scores are drawn from 0..MaxScore
MaxLen == 3         \* longest score vector of a conversion or an examples call
MaxHistLen == 2     \* longest score array of a histogram call
MaxRows == 2        \* rows and columns of a two-dimensional tensor
MaxList == 2        \* longest list of tensors
MaxGroups == 2      \* distinct group labels of a histogram call
MaxBins == 2        \* largest integer bins argument
MaxExamples == 3    \* largest n_examples argument
MaxSamples == 21    \* largest dataset of a summary call
MaxTies == 1        \* pairs of equal scores at either end of the summary's scores
MaxClasses == 2     \* classes of the summary's dataset

NumShown == 10      \* images in each row of the summary
SummaryBins == 30   \* bins of the summary's class histograms

None == [kind |-> "None", rank |-> 0, rows |-> <<>>, items |-> <<>>]

(***************************************************************************)
(* Python values.  A tensor or array of rank 0, 1 or 2 is kept as its      *)
(* sequence of rows: a scalar is <<<<v>>>>, a vector <<v>>, a matrix its   *)
(* rows.  A list keeps its items.                                          *)
(***************************************************************************)
Tensor(r, rws) == [kind |-> "Tensor", rank |-> r, rows |-> rws, items |-> <<>>]
NdArray(r, rws) == [kind |-> "ndarray", rank |-> r, rows |-> rws, items |-> <<>>]
PyList(its) == [kind |-> "list", rank |-> 0, rows |-> <<>>, items |-> its]
Number(v) == [kind |-> "number", rank |-> 0, rows |-> <<<<v>>>>, items |-> <<>>]

Shape(t) ==
    IF t.rank = 0 THEN <<>>
    ELSE IF t.rank = 1 THEN <<Len(t.rows[1])>>
    ELSE <<Len(t.rows), Len(t.rows[1])>>

RECURSIVE ConcatAll(_)
ConcatAll(seqs) ==
    IF seqs = <<>> THEN <<>> ELSE Head(seqs) \o ConcatAll(Tail(seqs))

\* A mutant of Flatten: the rows are laid out last row first.
RECURSIVE ConcatAllReversed(_)
ConcatAllReversed(seqs) ==
    IF seqs = <<>> THEN <<>> ELSE ConcatAllReversed(Tail(seqs)) \o Head(seqs)

FlattenReversed(t) == [t EXCEPT !.rank = 1, !.rows = <<ConcatAllReversed(t.rows)>>]

\* Tensor.flatten() and ndarray.flatten(): the elements in row-major order.
Flatten(t) == [t EXCEPT !.rank = 1, !.rows = <<ConcatAll(t.rows)>>]

\* utils.to_numpy on a tensor: the same elements as a numpy array.
to_numpy(t) == [t EXCEPT !.kind = "ndarray"]

\* torch.stack: the tensors side by side along a new leading dimension.
Stack(its) ==
    [kind |-> "Tensor", rank |-> its[1].rank + 1,
     rows |-> ConcatAll([i \in 1..Len(its) |-> its[i].rows]), items |-> <<>>]

Raise(e) == [exc |-> e, val |-> None]
Return(v) == [exc |-> "none", val |-> v]

convert_scores_to_numpy(scores) ==
    IF scores.kind = "list" /\ scores.items = <<>>
    THEN Raise("IndexError")                       \* scores[0] of an empty list
    ELSE IF scores.kind = "list" /\ scores.items[1].kind = "Tensor"
    THEN IF \E i \in 1..Len(scores.items) : scores.items[i].kind # "Tensor"
         THEN Raise("TypeError")                   \* torch.stack of a non-tensor
         ELSE IF \E i \in 1..Len(scores.items) :
                     Shape(scores.items[i]) # Shape(scores.items[1])
         THEN Raise("RuntimeError")                \* torch.stack of unequal sizes
         ELSE Return(to_numpy(Flatten(Stack(scores.items))))
    ELSE IF scores.kind = "Tensor" THEN Return(to_numpy(Flatten(scores)))
    ELSE IF scores.kind = "ndarray" THEN Return(Flatten(scores))
    ELSE Raise("ValueError")

(***************************************************************************)
(* The score arguments a call is given.                                    *)
(***************************************************************************)
Scores == 0..MaxScore

SeqsOf(S, n) == UNION {[1..k -> S] : k \in 0..n}

Vectors == SeqsOf(Scores, MaxLen)

\* Matrices of up to MaxRows rows and columns over the two extreme scores.
Matrices ==
    UNION {[1..r -> [1..c -> {0, MaxScore}]] : r \in 1..MaxRows, c \in 1..MaxRows}

ArrayRows(r) ==
    IF r = 0 THEN {<<<<v>>>> : v \in Scores}
    ELSE IF r = 1 THEN {<<v>> : v \in Vectors}
    ELSE Matrices

Tensors == UNION {{Tensor(r, rws) : rws \in ArrayRows(r)} : r \in 0..2}
NdArrays == UNION {{NdArray(r, rws) : rws \in ArrayRows(r)} : r \in 0..2}

\* What a list may hold: scalar tensors, short vectors, and plain numbers.
ListItems ==
    {Tensor(0, <<<<v>>>>) : v \in Scores}
    \cup {Tensor(1, <<v>>) : v \in [1..2 -> Scores] \cup [1..1 -> Scores]}
    \cup {Number(v) : v \in Scores}

Lists == {PyList(its) : its \in SeqsOf(ListItems, MaxList)}

ScoreArguments == Tensors \cup NdArrays \cup Lists \cup {None}


(***************************************************************************)
(* Python and numpy helpers.                                               *)
(***************************************************************************)
IsNone(v) == v.kind = "None"

Str(s) == [kind |-> "str", rank |-> 0, rows |-> <<>>, items |-> <<s>>]

\* Truth value of an optional string: None and "" are false.
Truthy(v) == ~IsNone(v) /\ v.items # <<"">>

Range(s) == {s[i] : i \in 1..Len(s)}

MinOf(S) == CHOOSE m \in S : \A x \in S : m <= x
MaxOf(S) == CHOOSE m \in S : \A x \in S : x <= m

\* sorted(list(set(...))) of integers: the members of S, smallest first.
RECURSIVE SortedInts(_)
SortedInts(S) ==
    IF S = {} THEN <<>>
    ELSE LET m == CHOOSE x \in S : \A z \in S : x <= z
         IN  <<m>> \o SortedInts(S \ {m})

\* a[mask] for a boolean mask given as the set of its true positions (1-based).
RECURSIVE Take(_, _, _)
Take(a, mask, i) ==
    IF i > Len(a) THEN <<>>
    ELSE (IF i \in mask THEN <<a[i]>> ELSE <<>>) \o Take(a, mask, i + 1)

\* np.argsort: the orders (0-based indices) that sort a; numpy's default sort
\* is not stable, so equal scores may come out in either order.
RECURSIVE ArgSortsOf(_, _)
ArgSortsOf(a, left) ==
    IF left = {} THEN {<<>>}
    ELSE LET m == MinOf({a[i + 1] : i \in left})
         IN  UNION {{<<i>> \o o : o \in ArgSortsOf(a, left \ {i})} :
                    i \in {j \in left : a[j + 1] = m}}

ArgSorts(a) == ArgSortsOf(a, 0..(Len(a) - 1))

\* A slice bound as Python normalises it: negative counts from the end,
\* and the result is clamped to 0..len.
SliceIndex(k, len) ==
    IF k < 0 THEN (IF len + k < 0 THEN 0 ELSE len + k)
    ELSE (IF k > len THEN len ELSE k)

\* a[:k]
SliceTo(a, k) == SubSeq(a, 1, SliceIndex(k, Len(a)))

\* a[k:]
SliceFrom(a, k) == SubSeq(a, SliceIndex(k, Len(a)) + 1, Len(a))

(***************************************************************************)
(* numpy.histogram as Axes.hist calls it.  bins is an integer or the edges *)
(* of an earlier histogram.  An edge is e[i] / den.                        *)
(***************************************************************************)
IntBins(n) == [kind |-> "int", n |-> n, den |-> 1, e |-> <<>>]

\* Edges of n equal bins over the data's range: (0, 1) for no data, widened
\* by a half on both sides when all values are equal.
EdgesFor(data, n) ==
    LET lo == IF data = <<>> THEN 0 ELSE MinOf(Range(data))
        hi == IF data = <<>> THEN 1 ELSE MaxOf(Range(data))
        lo2 == IF lo = hi THEN 2 * lo - 1 ELSE 2 * lo
        hi2 == IF lo = hi THEN 2 * hi + 1 ELSE 2 * hi
    IN  [kind |-> "edges", n |-> n, den |-> 2 * n,
         e |-> [i \in 1..(n + 1) |-> n * lo2 + (i - 1) * (hi2 - lo2)]]

\* The bin (1-based) of value v, or 0 when v lies outside the edges: bins are
\* half-open, except the last, which includes its right edge.
BinOf(v, edges) ==
    LET sv == v * edges.den
        hit == {k \in 1..edges.n :
                   /\ edges.e[k] <= sv
                   /\ \/ sv < edges.e[k + 1]
                      \/ k = edges.n /\ sv = edges.e[k + 1]}
    IN  IF hit = {} THEN 0 ELSE MinOf(hit)

Histogram(data, b) ==
    LET edges == IF b.kind = "int" THEN EdgesFor(data, b.n) ELSE b
    IN  [counts |-> [k \in 1..edges.n |->
                        Cardinality({i \in 1..Len(data) : BinOf(data[i], edges) = k})],
         edges |-> edges]

(***************************************************************************)
(* The figure and the files saved.                                         *)
(***************************************************************************)
NoFigure ==
    [created |-> FALSE, series |-> <<>>, ylabel |-> "", legend |-> FALSE,
     panels |-> <<>>]

NewFigure == [NoFigure EXCEPT !.created = TRUE]

\* savefig(fig, save_name): the file holds the figure as it is now.
savefig(f, name) == Append(saved, [name |-> name, fig |-> f])


(***************************************************************************)
(* State before a call, and the step every plotting function starts with.  *)
(***************************************************************************)
Called(f, a) ==
    /\ fn = f
    /\ pc = "start"
    /\ args = a
    /\ exc = "none"
    /\ informativeness_scores = <<>>
    /\ ret = None
    /\ again = None
    /\ density = FALSE
    /\ groups = <<>>
    /\ bins = IntBins(0)
    /\ with_groups = FALSE
    /\ different_groups = <<>>
    /\ todo = <<>>
    /\ fig = NoFigure
    /\ saved = <<>>
    /\ order = <<>>
    /\ indices = <<>>
    /\ shown = <<>>
    /\ ys = <<>>
    /\ least_informative = <<>>
    /\ most_informative = <<>>

PlotFunctions ==
    {"plot_histogram_of_informativeness", "plot_least_or_most_informative_examples",
     "plot_summary_of_informativeness"}

\* Arguments that convert_scores_to_numpy rejects.
BadScoreArguments ==
    {PyList(<<>>), PyList(<<Number(0)>>),
     PyList(<<Tensor(0, <<<<0>>>>), Number(0)>>), None}

\* informativeness_scores = convert_scores_to_numpy(informativeness_scores)
ConvertScores ==
    /\ fn \in PlotFunctions
    /\ pc = "start"
    /\ LET r == convert_scores_to_numpy(args.informativeness_scores)
       IN  IF r.exc = "none"
           THEN /\ informativeness_scores' = r.val.rows[1]
                /\ pc' = "converted"
                /\ exc' = exc
           ELSE /\ exc' = r.exc
                /\ pc' = "raised"
                /\ informativeness_scores' = informativeness_scores
    /\ UNCHANGED <<fn, args, ret, again, density, groups, bins, with_groups,
                   different_groups, todo, fig, saved, order, indices, shown, ys,
                   least_informative, most_informative>>

(***************************************************************************)
(* convert_scores_to_numpy called on its own, then on its own result.      *)
(***************************************************************************)
InitConvert ==
    \E a \in ScoreArguments :
        Called("convert_scores_to_numpy", [informativeness_scores |-> a])

CallConvert ==
    /\ fn = "convert_scores_to_numpy"
    /\ pc = "start"
    /\ LET r == convert_scores_to_numpy(args.informativeness_scores)
       IN  /\ ret' = r.val
           /\ exc' = r.exc
           /\ pc' = IF r.exc = "none" THEN "returned" ELSE "raised"
    /\ UNCHANGED <<fn, args, informativeness_scores, again, density, groups, bins,
                   with_groups, different_groups, todo, fig, saved, order, indices,
                   shown, ys, least_informative, most_informative>>

CallConvertAgain ==
    /\ fn = "convert_scores_to_numpy"
    /\ pc = "returned"
    /\ LET r == convert_scores_to_numpy(ret)
       IN  /\ again' = r.val
           /\ exc' = r.exc
           /\ pc' = IF r.exc = "none" THEN "returned_again" ELSE "raised"
    /\ UNCHANGED <<fn, args, informativeness_scores, ret, density, groups, bins,
                   with_groups, different_groups, todo, fig, saved, order, indices,
                   shown, ys, least_informative, most_informative>>

NextConvert == CallConvert \/ CallConvertAgain

SpecConvert == InitConvert /\ [][NextConvert]_vars

(***************************************************************************)
(* plot_histogram_of_informativeness                                       *)
(***************************************************************************)
GroupLabel(i) == "g" \o ToString(i)

Labels == {GroupLabel(i) : i \in 1..MaxGroups}

\* Position of a label in the order of Python's string comparison
\* ("dummy" < "g1" < "g2" < ...).
LabelRank(g) ==
    IF g = "dummy" THEN 0 ELSE CHOOSE i \in 1..MaxGroups : GroupLabel(i) = g

LabelOfRank(r) == IF r = 0 THEN "dummy" ELSE GroupLabel(r)

\* sorted(list(set(groups)))
SortedLabels(gs) ==
    LET ranks == SortedInts({LabelRank(g) : g \in Range(gs)})
    IN  [i \in 1..Len(ranks) |-> LabelOfRank(ranks[i])]

\* A mutant of Mask: the samples up to the last one of the label.
MaskUpTo(labels, g) ==
    {i \in 1..Len(labels) : \E j \in i..Len(labels) : labels[j] = g}

\* groups == g, ys == y: the positions (1-based) holding the label.
Mask(labels, g) == {i \in 1..Len(labels) : labels[i] = g}

\* A mutant of ForcedDensity: the caller's density is kept.
KeptDensity(d, use_density_estimation) == d

\* if use_density_estimation: density = True
ForcedDensity(d, use_density_estimation) ==
    IF use_density_estimation THEN TRUE ELSE d

\* if save_name:
HistShouldSave(save_name) == Truthy(save_name)

SaveNames == {None, Str(""), Str("figure.pdf")}

InitHistogram ==
    \E a \in {NdArray(1, <<v>>) : v \in SeqsOf(Scores, MaxHistLen)}
             \cup BadScoreArguments,
       b \in 1..MaxBins, s \in SaveNames, d \in BOOLEAN, u \in BOOLEAN :
        \E g \in {None} \cup
                 (IF a.kind = "ndarray"
                  THEN {PyList(l) : l \in [1..Len(a.rows[1]) -> Labels]}
                  ELSE {}) :
            Called("plot_histogram_of_informativeness",
                   [informativeness_scores |-> a, groups |-> g, bins |-> b,
                    save_name |-> s, density |-> d, use_density_estimation |-> u])

\* Lines 45-56: the locals, and the figure.
H_Setup ==
    /\ fn = "plot_histogram_of_informativeness"
    /\ pc = "converted"
    /\ density' = ForcedDensity(args.density, args.use_density_estimation)
    /\ with_groups' = ~IsNone(args.groups)
    /\ groups' = IF IsNone(args.groups)
                 THEN [i \in 1..Len(informativeness_scores) |-> "dummy"]
                 ELSE args.groups.items
    /\ different_groups' = SortedLabels(groups')
    /\ todo' = different_groups'
    /\ bins' = IntBins(args.bins)
    /\ fig' = NewFigure
    /\ pc' = "series"
    /\ UNCHANGED <<fn, args, exc, informativeness_scores, ret, again, saved, order,
                   indices, shown, ys, least_informative, most_informative>>

\* One iteration of the loop over different_groups: a histogram (lines 58-60)
\* or a density curve (lines 62-67) of the group's scores.
H_Series ==
    /\ fn = "plot_histogram_of_informativeness"
    /\ pc = "series"
    /\ todo # <<>>
    /\ LET g == Head(todo)
           mask == Mask(groups, g)
           scores == Take(informativeness_scores, mask, 1)
           h == Histogram(scores, bins)
       IN  IF ~args.use_density_estimation
           THEN /\ fig' = [fig EXCEPT !.series = Append(@,
                             [label |-> g, kind |-> "hist", mask |-> mask,
                              data |-> scores, density |-> density,
                              counts |-> h.counts, xmax |-> 0])]
                /\ bins' = h.edges
           ELSE /\ fig' = [fig EXCEPT !.series = Append(@,
                             [label |-> g, kind |-> "kde", mask |-> mask,
                              data |-> scores, density |-> TRUE,
                              counts |-> <<>>,
                              xmax |-> MaxOf(Range(informativeness_scores))])]
                /\ bins' = bins
    /\ todo' = Tail(todo)
    /\ UNCHANGED <<fn, pc, args, exc, informativeness_scores, ret, again, density,
                   groups, with_groups, different_groups, saved, order, indices,
                   shown, ys, least_informative, most_informative>>

\* Lines 69-79: axis labels and legend.
H_Axes ==
    /\ fn = "plot_histogram_of_informativeness"
    /\ pc = "series"
    /\ todo = <<>>
    /\ fig' = [fig EXCEPT !.ylabel = IF density THEN "Density" ELSE "Count",
                          !.legend = with_groups]
    /\ pc' = "save"
    /\ UNCHANGED <<fn, args, exc, informativeness_scores, ret, again, density,
                   groups, bins, with_groups, different_groups, todo, saved, order,
                   indices, shown, ys, least_informative, most_informative>>

\* Lines 80-83: save when asked to, and return.
H_Save ==
    /\ fn = "plot_histogram_of_informativeness"
    /\ pc = "save"
    /\ saved' = IF HistShouldSave(args.save_name)
                THEN savefig(fig, args.save_name) ELSE saved
    /\ pc' = "done"
    /\ UNCHANGED <<fn, args, exc, informativeness_scores, ret, again, density,
                   groups, bins, with_groups, different_groups, todo, fig, order,
                   indices, shown, ys, least_informative, most_informative>>

NextHistogram == ConvertScores \/ H_Setup \/ H_Series \/ H_Axes \/ H_Save

SpecHistogram == InitHistogram /\ [][NextHistogram]_vars


(***************************************************************************)
(* plot_least_or_most_informative_examples                                 *)
(***************************************************************************)
\* A mutant of SelectExamples: the two modes are swapped.
SelectExamplesSwapped(o, least, n_examples) ==
    IF least THEN SliceFrom(o, -n_examples) ELSE SliceTo(o, n_examples)

\* Lines 94-97: order[:n_examples] or order[-n_examples:].
SelectExamples(o, least, n_examples) ==
    IF least THEN SliceTo(o, n_examples) ELSE SliceFrom(o, -n_examples)

InitExamples ==
    \E a \in {NdArray(1, <<v>>) : v \in Vectors}
             \cup {Tensor(1, <<v>>) : v \in Vectors} \cup BadScoreArguments,
       l \in BOOLEAN, n \in 0..MaxExamples, s \in SaveNames :
        Called("plot_least_or_most_informative_examples",
               [informativeness_scores |-> a, least_informative |-> l,
                n_examples |-> n, save_name |-> s])

\* Lines 93-97.
E_Select ==
    /\ fn = "plot_least_or_most_informative_examples"
    /\ pc = "converted"
    /\ order' \in ArgSorts(informativeness_scores)
    /\ indices' = SelectExamples(order', args.least_informative, args.n_examples)
    /\ pc' = "selected"
    /\ UNCHANGED <<fn, args, exc, informativeness_scores, ret, again, density,
                   groups, bins, with_groups, different_groups, todo, fig, saved,
                   shown, ys, least_informative, most_informative>>

\* Lines 99-102: the call of plot_examples_from_dataset, which draws and saves.
E_Display ==
    /\ fn = "plot_least_or_most_informative_examples"
    /\ pc = "selected"
    /\ shown' = <<[indices |-> indices, n_rows |-> 1, n_cols |-> args.n_examples,
                   savename |-> args.save_name]>>
    /\ pc' = "done"
    /\ UNCHANGED <<fn, args, exc, informativeness_scores, ret, again, density,
                   groups, bins, with_groups, different_groups, todo, fig, saved,
                   order, indices, ys, least_informative, most_informative>>

NextExamples == ConvertScores \/ E_Select \/ E_Display

SpecExamples == InitExamples /\ [][NextExamples]_vars

(***************************************************************************)
(* plot_summary_of_informativeness                                         *)
(***************************************************************************)
\* A score array of n samples: 0..n-1 rotated by shift, ascending or
\* descending, with the 2 * ties lowest and the 2 * ties highest scores made
\* equal in pairs.
SummaryScores(n, shift, descending, ties) ==
    [i \in 1..n |->
        LET r == (i - 1 + shift) % n
            v == IF descending THEN n - 1 - r ELSE r
        IN  IF v < 2 * ties THEN 2 * (v \div 2)
            ELSE IF v > n - 1 - 2 * ties THEN n - 1 - 2 * ((n - 1 - v) \div 2)
            ELSE v]

\* Dataset sizes around the two thresholds of the summary: too few samples
\* for a row, enough for a row, and enough for two rows that do not overlap.
SummarySizes ==
    {n \in (NumShown - 1)..MaxSamples :
        n <= NumShown + 1 \/ n >= 2 * NumShown - 1}

\* The label of a sample of class c, as an integer or as a one-hot vector.
ClassLabel(c, one_hot) ==
    IF one_hot
    THEN Tensor(1, <<[j \in 1..MaxClasses |-> IF j - 1 = c THEN 1 ELSE 0]>>)
    ELSE Tensor(0, <<<<c>>>>)

\* A dataset of n samples of k classes; sample i holds image i.
Dataset(n, k, one_hot) ==
    [i \in 1..n |-> [x |-> i - 1, y |-> ClassLabel((n - i) % k, one_hot)]]

ClassName(y) == "class " \o ToString(y)

ClassNames == PyList([j \in 1..MaxClasses |-> ClassName(j - 1)])

\* torch.argmax: position (0-based) of the first largest element.
ArgMax(t) ==
    LET flat == ConcatAll(t.rows)
    IN  Tensor(0, <<<<MinOf({j \in 1..Len(flat) :
                                \A k \in 1..Len(flat) : flat[k] <= flat[j]}) - 1>>>>)

\* Tensor.item()
Item(t) == t.rows[1][1]

\* Lines 119-122: the class of every sample.
ClassesOf(data, one_hot) ==
    [i \in 1..Len(data) |->
        Item(IF one_hot THEN ArgMax(data[i].y) ELSE data[i].y)]

\* A mutant of LegendLabel: the class number even when names are given.
LegendNumber(y, label_names) == ToString(y)

\* Lines 128-130: the legend entry of class y.
LegendLabel(y, label_names) ==
    IF IsNone(label_names) THEN ToString(y) ELSE label_names.items[y + 1]

\* A mutant of SummaryShouldSave: the figure is always saved.
SummarySaveAlways(save_name) == TRUE

\* if save_name is not None:
SummaryShouldSave(save_name) == ~IsNone(save_name)

\* order[:10]
LeastInformative(o) == SliceTo(o, NumShown)

\* A mutant of MostInformative: the first images once more.
MostInformativeFirst(o) == SliceTo(o, NumShown)

\* order[-10:]
MostInformative(o) == SliceFrom(o, -NumShown)

\* range(10)
Columns == [i \in 1..NumShown |-> i - 1]

InitSummary ==
    \/ \E n \in SummarySizes, shift \in {0, 3},
          descending \in BOOLEAN, ties \in 0..MaxTies, k \in 1..MaxClasses,
          one_hot \in BOOLEAN, names \in {None, ClassNames},
          s \in {None, Str("summary.pdf")} :
           Called("plot_summary_of_informativeness",
                  [data |-> Dataset(n, k, one_hot),
                   informativeness_scores |->
                       NdArray(1, <<SummaryScores(n, shift, descending, ties)>>),
                   label_names |-> names, save_name |-> s,
                   is_label_one_hot |-> one_hot])
    \/ \E a \in BadScoreArguments, s \in {None, Str("summary.pdf")} :
           Called("plot_summary_of_informativeness",
                  [data |-> Dataset(NumShown, 1, FALSE),
                   informativeness_scores |-> a,
                   label_names |-> None, save_name |-> s,
                   is_label_one_hot |-> FALSE])

\* Lines 115-124: the figure, the classes and the sorted distinct classes.
S_Figure ==
    /\ fn = "plot_summary_of_informativeness"
    /\ pc = "converted"
    /\ fig' = NewFigure
    /\ ys' = ClassesOf(args.data, args.is_label_one_hot)
    /\ todo' = SortedInts(Range(ys'))
    /\ pc' = "classes"
    /\ UNCHANGED <<fn, args, exc, informativeness_scores, ret, again, density,
                   groups, bins, with_groups, different_groups, saved, order,
                   indices, shown, least_informative, most_informative>>

\* One iteration of the loop over set_ys (lines 126-131).
S_Hist ==
    /\ fn = "plot_summary_of_informativeness"
    /\ pc = "classes"
    /\ todo # <<>>
    /\ LET y == Head(todo)
           mask == Mask(ys, y)
           scores == Take(informativeness_scores, mask, 1)
       IN  IF ~IsNone(args.label_names) /\ y + 1 > Len(args.label_names.items)
           THEN /\ exc' = "IndexError"
                /\ pc' = "raised"
                /\ UNCHANGED <<fig, todo>>
           ELSE /\ fig' = [fig EXCEPT !.series = Append(@,
                             [label |-> LegendLabel(y, args.label_names),
                              kind |-> "hist", mask |-> mask, data |-> scores,
                              density |-> FALSE,
                              counts |-> Histogram(scores, IntBins(SummaryBins)).counts,
                              xmax |-> 0])]
                /\ todo' = Tail(todo)
                /\ UNCHANGED <<exc, pc>>
    /\ UNCHANGED <<fn, args, informativeness_scores, ret, again, density, groups,
                   bins, with_groups, different_groups, saved, order, indices,
                   shown, ys, least_informative, most_informative>>

\* Lines 132-143: legend, axis labels, and the two ends of the sorted order.
S_Axes ==
    /\ fn = "plot_summary_of_informativeness"
    /\ pc = "classes"
    /\ todo = <<>>
    /\ fig' = [fig EXCEPT !.ylabel = "Count", !.legend = TRUE]
    /\ order' \in ArgSorts(informativeness_scores)
    /\ least_informative' = LeastInformative(order')
    /\ most_informative' = MostInformative(order')
    /\ todo' = Columns
    /\ pc' = "row B"
    /\ UNCHANGED <<fn, args, exc, informativeness_scores, ret, again, density,
                   groups, bins, with_groups, different_groups, saved, indices,
                   shown, ys>>

\* One iteration of a loop over range(10): the image of picked[i] in column i.
Panel(row, next, picked) ==
    /\ fn = "plot_summary_of_informativeness"
    /\ pc = row
    /\ LET i == Head(todo)
       IN  IF i >= Len(picked)
           THEN /\ exc' = "IndexError"
                /\ pc' = "raised"
                /\ UNCHANGED <<fig, todo>>
           ELSE /\ fig' = [fig EXCEPT !.panels = Append(@,
                             [row |-> row, col |-> i, sample |-> picked[i + 1],
                              image |-> args.data[picked[i + 1] + 1].x])]
                /\ todo' = IF Tail(todo) = <<>> THEN Columns ELSE Tail(todo)
                /\ pc' = IF Tail(todo) = <<>> THEN next ELSE row
                /\ exc' = exc
    /\ UNCHANGED <<fn, args, informativeness_scores, ret, again, density, groups,
                   bins, with_groups, different_groups, saved, order, indices,
                   shown, ys, least_informative, most_informative>>

\* Lines 145-157.
S_RowB == Panel("row B", "row C", least_informative)

\* Lines 159-171.
S_RowC == Panel("row C", "save", most_informative)

\* Lines 173-176: save when asked to, and return.
S_Save ==
    /\ fn = "plot_summary_of_informativeness"
    /\ pc = "save"
    /\ saved' = IF SummaryShouldSave(args.save_name)
                THEN savefig(fig, args.save_name) ELSE saved
    /\ pc' = "done"
    /\ UNCHANGED <<fn, args, exc, informativeness_scores, ret, again, density,
                   groups, bins, with_groups, different_groups, todo, fig, order,
                   indices, shown, ys, least_informative, most_informative>>

NextSummary == ConvertScores \/ S_Figure \/ S_Hist \/ S_Axes \/ S_RowB \/ S_RowC \/ S_Save

SpecSummary == InitSummary /\ [][NextSummary]_vars

(***************************************************************************)
(* Any call of the module.                                                 *)
(***************************************************************************)
Init == InitConvert \/ InitHistogram \/ InitExamples \/ InitSummary

Next ==
    \/ CallConvert \/ CallConvertAgain
    \/ ConvertScores
    \/ H_Setup \/ H_Series \/ H_Axes \/ H_Save
    \/ E_Select \/ E_Display
    \/ S_Figure \/ S_Hist \/ S_Axes \/ S_RowB \/ S_RowC \/ S_Save

Spec == Init /\ [][Next]_vars

\* The two functions that save a figure themselves.
InitSaving == InitHistogram \/ InitSummary

NextSaving ==
    \/ ConvertScores
    \/ H_Setup \/ H_Series \/ H_Axes \/ H_Save
    \/ S_Figure \/ S_Hist \/ S_Axes \/ S_RowB \/ S_RowC \/ S_Save

SpecSaving == InitSaving /\ [][NextSaving]_vars


(***************************************************************************)
(* Properties.                                                             *)
(***************************************************************************)
RECURSIVE SumSeq(_)
SumSeq(q) == IF q = <<>> THEN 0 ELSE Head(q) + SumSeq(Tail(q))

Smaller(a, b) == IF a < b THEN a ELSE b

\* The p-th smallest member of a set of integers.
Nth(S, p) == CHOOSE i \in S : Cardinality({j \in S : j <= i}) = p

\* q holds exactly a's elements at the positions of mask, in their order.
IsRestriction(q, a, mask) ==
    /\ Len(q) = Cardinality(mask)
    /\ \A p \in 1..Len(q) : q[p] = a[Nth(mask, p)]

\* The series are one per distinct label of labelling, in the order given by
\* rank, each built from exactly the samples of its label.
OnePerLabel(series, labelling, a, rank(_), name(_)) ==
    LET distinct == Range(labelling)
    IN  /\ Len(series) = Cardinality(distinct)
        /\ \A k \in 1..Len(series) :
              \E g \in distinct :
                  /\ series[k].label = name(g)
                  /\ Cardinality({h \in distinct : rank(h) < rank(g)}) = k - 1
                  /\ series[k].mask = {i \in 1..Len(labelling) : labelling[i] = g}
                  /\ IsRestriction(series[k].data, a, series[k].mask)
        /\ \A i \in 1..Len(a) :
              Cardinality({k \in 1..Len(series) : i \in series[k].mask}) = 1

Examples == fn = "plot_least_or_most_informative_examples"
Hist == fn = "plot_histogram_of_informativeness"
Summary == fn = "plot_summary_of_informativeness"

ScoreAt(i) == informativeness_scores[i + 1]

Ascending(picked) ==
    \A i, j \in 1..Len(picked) : i < j => ScoreAt(picked[i]) <= ScoreAt(picked[j])

NoRepeat(picked) ==
    \A i, j \in 1..Len(picked) : i < j => picked[i] # picked[j]

AllSamples == 0..(Len(informativeness_scores) - 1)

\* picked are lowest-scored: no sample left out scores below a picked one.
Lowest(picked) ==
    \A c \in Range(picked), r \in AllSamples \ Range(picked) :
        ScoreAt(c) <= ScoreAt(r)

Highest(picked) ==
    \A c \in Range(picked), r \in AllSamples \ Range(picked) :
        ScoreAt(c) >= ScoreAt(r)

\* C1: with 1 <= n_examples <= number of scores, the display routine is handed
\* n_examples distinct indices in ascending score order, each scoring no more
\* (least_informative) or no less (otherwise) than every index left out.
C1_RankedSelection ==
    (/\ Examples /\ pc = "done"
     /\ args.n_examples >= 1
     /\ Len(informativeness_scores) >= args.n_examples)
    => LET picked == shown[1].indices
       IN  /\ Len(picked) = args.n_examples
           /\ Range(picked) \subseteq AllSamples
           /\ Ascending(picked)
           /\ NoRepeat(picked)
           /\ IF args.least_informative THEN Lowest(picked) ELSE Highest(picked)

C1_Witness ==
    /\ Examples /\ pc = "done"
    /\ args.n_examples = 2
    /\ informativeness_scores = <<2, 0, 1>>
    /\ args.least_informative
    /\ shown[1].indices = <<1, 2>>

\* C10: the number of indices selected equals min(n_examples, number of
\* scores) for every n_examples >= 0 in both modes.
C10_SelectedCount ==
    (Examples /\ pc = "done")
    => Len(shown[1].indices)
           = Smaller(args.n_examples, Len(informativeness_scores))

\* The labels the histogram call groups by: the caller's, or one for all.
CallerLabels ==
    IF IsNone(args.groups)
    THEN [i \in 1..Len(informativeness_scores) |-> "dummy"]
    ELSE args.groups.items

SameLabel(g) == g

SeriesDrawn == Hist /\ (pc \in {"save", "done"} \/ (pc = "series" /\ todo = <<>>))

\* C2: one series per distinct group label, in sorted label order, each built
\* from exactly the scores of the samples carrying its label; every sample is
\* in exactly one series; without groups all samples are in a single series.
C2_SeriesPartition ==
    SeriesDrawn
    => /\ OnePerLabel(fig.series, CallerLabels, informativeness_scores,
                      LabelRank, SameLabel)
       /\ IsNone(args.groups)
          => /\ Len(fig.series) <= 1
             /\ informativeness_scores # <<>>
                => /\ Len(fig.series) = 1
                   /\ fig.series[1].data = informativeness_scores

C2_Witness ==
    /\ Hist /\ pc = "done"
    /\ informativeness_scores = <<1, 0>>
    /\ ~IsNone(args.groups)
    /\ args.groups.items = <<"g2", "g1">>
    /\ Len(fig.series) = 2
    /\ fig.series[1].label = "g1"
    /\ fig.series[1].data = <<0>>

\* C3: every group gets a histogram when use_density_estimation is false and
\* a density curve when it is true, never both; density estimation forces
\* density to true; the y axis reads 'Count' exactly when both flags are
\* false and 'Density' otherwise.
C3_HistogramOrDensity ==
    Hist
    => /\ \A k \in 1..Len(fig.series) :
              fig.series[k].kind =
                  IF args.use_density_estimation THEN "kde" ELSE "hist"
       /\ SeriesDrawn
          => \A g \in Range(CallerLabels) :
                 Cardinality({k \in 1..Len(fig.series) :
                                 fig.series[k].label = g}) = 1
       /\ (pc \in {"series", "save", "done"} /\ args.use_density_estimation)
          => density
       /\ pc \in {"save", "done"}
          => /\ fig.ylabel \in {"Count", "Density"}
             /\ fig.ylabel = "Count"
                <=> (~args.density /\ ~args.use_density_estimation)

C3_Witness ==
    /\ Hist /\ pc = "done"
    /\ args.use_density_estimation /\ ~args.density
    /\ Len(fig.series) = 2
    /\ fig.ylabel = "Density"

\* C9: in histogram mode without density, every sample is counted in exactly
\* one bin of its group's histogram, so the counts of all groups sum to the
\* number of samples.
C9_EverySampleCounted ==
    (/\ Hist /\ pc \in {"save", "done"}
     /\ ~args.use_density_estimation /\ ~args.density)
    => /\ \A k \in 1..Len(fig.series) :
              SumSeq(fig.series[k].counts) = Len(fig.series[k].data)
       /\ SumSeq([k \in 1..Len(fig.series) |-> SumSeq(fig.series[k].counts)])
              = Len(informativeness_scores)


\* Arguments convert_scores_to_numpy is meant for: a tensor, an array, or a
\* non-empty list of tensors.
Accepted(a) ==
    \/ a.kind \in {"Tensor", "ndarray"}
    \/ /\ a.kind = "list"
       /\ a.items # <<>>
       /\ \A i \in 1..Len(a.items) : a.items[i].kind = "Tensor"

EquallyShaped(a) ==
    a.kind = "list"
    => \A i \in 1..Len(a.items) : Shape(a.items[i]) = Shape(a.items[1])

\* The row lists whose rows, one after the other, are the argument's elements.
Blocks(a) ==
    IF a.kind = "list" THEN [e \in 1..Len(a.items) |-> a.items[e].rows]
    ELSE <<a.rows>>

\* flat holds the elements of the blocks in row-major order, block by block.
RowMajor(flat, blocks) ==
    LET R == Len(blocks[1])
        C == Len(blocks[1][1])
    IN  /\ Len(flat) = Len(blocks) * R * C
        /\ \A e \in 1..Len(blocks), i \in 1..R, j \in 1..C :
               flat[((e - 1) * R + (i - 1)) * C + j] = blocks[e][i][j]

\* C4: for a tensor, an array or a list of equally shaped tensors the result
\* is a one-dimensional array of exactly the input's elements in row-major
\* order (list items one after the other), and converting the result again
\* returns the same array.
C4_FlatRowMajor ==
    (/\ fn = "convert_scores_to_numpy"
     /\ Accepted(args.informativeness_scores)
     /\ EquallyShaped(args.informativeness_scores)
     /\ pc # "start")
    => /\ exc = "none"
       /\ ret.kind = "ndarray"
       /\ ret.rank = 1
       /\ Len(ret.rows) = 1
       /\ RowMajor(ret.rows[1], Blocks(args.informativeness_scores))
       /\ pc = "returned_again" => again = ret

C4_Witness ==
    /\ fn = "convert_scores_to_numpy"
    /\ pc = "returned_again"
    /\ args.informativeness_scores =
           PyList(<<Tensor(1, <<<<0, 1>>>>), Tensor(1, <<<<2, 0>>>>)>>)
    /\ again.rows = <<<<0, 1, 2, 0>>>>

\* C5: an argument that is no tensor, no array and no list of tensors makes
\* the call fail with ValueError and nothing else, before any figure exists
\* and with no file saved.
C5_OnlyValueError ==
    (/\ Hist \/ Summary
     /\ ~Accepted(args.informativeness_scores)
     /\ pc # "start")
    => /\ pc = "raised"
       /\ exc = "ValueError"
       /\ ~fig.created
       /\ saved = <<>>

PanelsOf(row) ==
    LET at == {p \in 1..Len(fig.panels) : fig.panels[p].row = row}
    IN  [c \in 1..Cardinality(at) |-> fig.panels[Nth(at, c)].sample]

RowsShown(n) ==
    /\ Len(PanelsOf("row B")) = n
    /\ Len(PanelsOf("row C")) = n
    /\ \A p \in 1..Len(fig.panels) :
           /\ fig.panels[p].col = (p - 1) % n
           /\ fig.panels[p].image = args.data[fig.panels[p].sample + 1].x
    /\ Lowest(PanelsOf("row B")) /\ Ascending(PanelsOf("row B"))
    /\ NoRepeat(PanelsOf("row B"))
    /\ Highest(PanelsOf("row C")) /\ Ascending(PanelsOf("row C"))
    /\ NoRepeat(PanelsOf("row C"))

RowsApart ==
    /\ \A b \in Range(PanelsOf("row B")), c \in Range(PanelsOf("row C")) :
           ScoreAt(b) <= ScoreAt(c)
    /\ Range(PanelsOf("row B")) \cap Range(PanelsOf("row C")) = {}

RowsDrawn == Summary /\ pc \in {"save", "done"}

\* C6 as stated: with at least 10 samples row B shows the 10 lowest-scored
\* and row C the 10 highest-scored samples, each in ascending score order,
\* every sample of B scores no more than every sample of C, and no sample is
\* in both rows.
C6_RowsFromTenSamples ==
    (RowsDrawn /\ Len(informativeness_scores) >= NumShown)
    => RowsShown(NumShown) /\ RowsApart

\* C6 amended: with at least 10 samples row B shows the 10 lowest-scored and
\* row C the 10 highest-scored samples, each in ascending score order; with
\* at least 20 samples every sample of B scores no more than every sample of
\* C and no sample is in both rows.
C6_RowsFromTwentySamples ==
    (RowsDrawn /\ Len(informativeness_scores) >= NumShown)
    => /\ RowsShown(NumShown)
       /\ Len(informativeness_scores) >= 2 * NumShown => RowsApart

C6_Witness ==
    /\ RowsDrawn /\ pc = "done"
    /\ Len(informativeness_scores) = 2 * NumShown
    /\ informativeness_scores[1] > informativeness_scores[2]
    /\ Len(fig.panels) = 2 * NumShown

\* The class of sample i as the dataset gives it.
TrueClass(i) ==
    LET y == args.data[i].y
    IN  IF args.is_label_one_hot
        THEN (CHOOSE j \in 1..Len(y.rows[1]) : y.rows[1][j] = 1) - 1
        ELSE y.rows[1][1]

TrueClasses == [i \in 1..Len(args.data) |-> TrueClass(i)]

ClassRank(y) == y

ExpectedLegend(y) ==
    IF IsNone(args.label_names) THEN ToString(y) ELSE args.label_names.items[y + 1]

\* C8: one class histogram per distinct class, in ascending class order, the
\* histogram of class y built from exactly the scores of the samples of class
\* y (the argmax of a one-hot label), labelled label_names[y] when names are
\* given and str(y) otherwise; every sample is in exactly one histogram.
C8_ClassHistograms ==
    (Summary /\ pc \in {"row B", "row C", "save", "done"})
    => /\ OnePerLabel(fig.series, TrueClasses, informativeness_scores,
                      ClassRank, ExpectedLegend)
       /\ \A k \in 1..Len(fig.series) :
              /\ fig.series[k].kind = "hist"
              /\ SumSeq(fig.series[k].counts) = Len(fig.series[k].data)

C8_Witness ==
    /\ Summary /\ pc = "done"
    /\ args.is_label_one_hot
    /\ ~IsNone(args.label_names)
    /\ Len(fig.series) = 2
    /\ fig.series[2].label = "class 1"
    /\ 1 \in fig.series[2].mask

FigureComplete ==
    /\ Hist => Len(fig.series) = Cardinality(Range(CallerLabels))
    /\ Summary => /\ Len(fig.series) = Cardinality(Range(TrueClasses))
                  /\ Len(fig.panels) = 2 * NumShown

\* C7: savefig is called at most once, only when a save_name was given, and
\* only as the last step, on the finished figure; a call that fails saves
\* nothing.
C7_SaveLast ==
    /\ Len(saved) <= 1
    /\ saved # <<>>
       => /\ ~IsNone(args.save_name)
          /\ saved[1].name = args.save_name
          /\ pc = "done" /\ exc = "none"
          /\ saved[1].fig = fig
          /\ FigureComplete
    /\ (pc = "raised" \/ exc # "none") => saved = <<>>

C7_Witness ==
    /\ Summary /\ pc = "done"
    /\ saved # <<>>
    /\ Len(saved[1].fig.panels) = 2 * NumShown

\* A summary call that fails part-way leaves no file.
C7_FailureWitness ==
    /\ Summary /\ pc = "raised" /\ exc = "IndexError"
    /\ fig.created /\ ~IsNone(args.save_name)
    /\ saved = <<>>

====
